---- MODULE Spec2Model ----
(***************************************************************************)
(* Kernel algebra of gpjax/kernels/base.py: the active-dims normalizer     *)
(* (_check_active_dims), the AbstractKernel / Constant / CombinationKernel *)
(* constructors, the + and * overloads, slice_input and evaluation.        *)
(*                                                                         *)
(* A Python session is modelled as an append-only object store: `heap`     *)
(* holds the kernel objects (a kernel's id is its index), `lists` holds    *)
(* the Python list objects (operand lists and `kernels` lists, which are   *)
(* mutable and may be aliased), and `last` records the most recent call    *)
(* and its outcome (the value returned or the exception raised).           *)
(***************************************************************************)
EXTENDS Integers, Sequences, FiniteSets, TLC

VARIABLES heap, lists, last

vars == <<heap, lists, last>>

---------------------------------------------------------------------------
(* Bounds of the model *)

MaxObjs == 3        \* kernel objects alive in one session (Spec)
MaxDimKernels == 1  \* kernel objects alive in one session (SpecDims)
LeafValue == 3      \* the value leaf kernels and bare scalars carry
MaxOperands == 2    \* length of an operand list handed to a constructor
MaxK == 2           \* integer selectors are 1..MaxK
MaxListLen == 2     \* length of an index-list selector
MaxStart == 1       \* slice starts are None or 0..MaxStart
MaxStop == 3        \* slice stops are None or 0..MaxStop
MaxStep == 2        \* slice steps are None or 0..MaxStep
MaxWidth == 4       \* trailing-axis widths of inputs are 1..MaxWidth
MaxInput == 0       \* evaluation points x, y are 0..MaxInput (no kernel here reads them)
MaxLeaves == 8      \* kernels are evaluated while they have at most MaxLeaves leaves

---------------------------------------------------------------------------
(* Python values.  Every value is a record [t, v]: t is the runtime type,  *)
(* v the payload (a tuple).                                                *)

IntV(n) == [t |-> "int", v |-> <<n>>]
FloatV(n) == [t |-> "float", v |-> <<n>>]
StrV == [t |-> "str", v |-> <<>>]
NoneV == [t |-> "none", v |-> <<>>]
ListV(s) == [t |-> "list", v |-> s]
SliceV(a, b, c) == [t |-> "slice", v |-> <<a, b, c>>]
KernelV(id) == [t |-> "kernel", v |-> <<id>>]
Unset == [t |-> "unset", v |-> <<>>]

\* Python's // on integers (floor of the quotient), for a non-zero divisor.
PyFloorDiv(a, b) == IF b > 0 THEN a \div b ELSE (0 - a) \div (0 - b)

---------------------------------------------------------------------------
(* _check_active_dims *)

\* a.stop - a.start raises TypeError unless both are integers; // raises
\* ZeroDivisionError on a zero step.
SliceDims(a) ==
    LET start == a.v[1]
        stop == a.v[2]
        step == IF a.v[3].t # "none" THEN a.v[3] ELSE IntV(1)
    IN  IF start.t # "int" \/ stop.t # "int" \/ step.t # "int"
        THEN [err |-> "TypeError", n_dims |-> Unset, active_dims |-> Unset]
        ELSE IF step.v[1] = 0
        THEN [err |-> "ZeroDivisionError", n_dims |-> Unset, active_dims |-> Unset]
        ELSE [err |-> "none",
              n_dims |-> IntV(PyFloorDiv(stop.v[1] - start.v[1], step.v[1])),
              active_dims |-> a]

check_active_dims(a) ==
    IF a.t = "list"
    THEN [err |-> "none", n_dims |-> IntV(Len(a.v)), active_dims |-> a]
    ELSE IF a.t = "int"
    THEN [err |-> "none", n_dims |-> a, active_dims |-> SliceV(NoneV, NoneV, NoneV)]
    ELSE IF a.t = "slice"
    THEN SliceDims(a)
    ELSE [err |-> "ValueError", n_dims |-> Unset, active_dims |-> Unset]

---------------------------------------------------------------------------
(* slice_input: x[..., active_dims] on a trailing axis of width D.  The    *)
(* result is the tuple of the column indices selected, in order.           *)

\* Python's clamping of a slice bound against an axis of width D (step > 0).
ClampBound(i, D) ==
    IF i < 0 THEN (IF i + D < 0 THEN 0 ELSE i + D)
    ELSE IF i > D THEN D ELSE i

\* Columns picked by a slice with a positive (or absent) step.
SliceColumns(sl, D) ==
    LET step == IF sl.v[3].t = "none" THEN 1 ELSE sl.v[3].v[1]
        start == IF sl.v[1].t = "none" THEN 0 ELSE ClampBound(sl.v[1].v[1], D)
        stop == IF sl.v[2].t = "none" THEN D ELSE ClampBound(sl.v[2].v[1], D)
        n == IF stop > start THEN (stop - start + step - 1) \div step ELSE 0
    IN  [j \in 1..n |-> start + (j - 1) * step]

\* Columns gathered by an index list whose entries are within the axis.
ListColumns(l, D) ==
    [j \in 1..Len(l.v) |-> IF l.v[j].v[1] < 0 THEN l.v[j].v[1] + D ELSE l.v[j].v[1]]

\* Whether x[..., sel] is defined by the indexing rules modelled here: an
\* index list of in-range integers, one in-range integer, a slice with a
\* positive or absent step and integer-or-absent bounds, or None.
Sliceable(sel, D) ==
    \/ sel.t = "none"
    \/ /\ sel.t = "list"
       /\ \A j \in 1..Len(sel.v) :
            /\ sel.v[j].t = "int"
            /\ sel.v[j].v[1] >= 0 - D
            /\ sel.v[j].v[1] < D
    \/ sel.t = "int" /\ sel.v[1] >= 0 - D /\ sel.v[1] < D
    \/ /\ sel.t = "slice"
       /\ \A j \in 1..3 : sel.v[j].t \in {"int", "none"}
       /\ sel.v[3].t = "int" => sel.v[3].v[1] > 0

slice_input(k, D) ==
    IF k.active_dims.t = "none" THEN [j \in 1..D |-> j - 1]
    ELSE IF k.active_dims.t = "list" THEN ListColumns(k.active_dims, D)
    ELSE IF k.active_dims.t = "int" THEN ListColumns(ListV(<<k.active_dims>>), D)
    ELSE SliceColumns(k.active_dims, D)

---------------------------------------------------------------------------
(* Exceptions *)

NoErr == "none"
InvalidSelector == "ValueError: active_dims must be a list, int or slice."
InvalidOperand == "TypeError: can only combine Kernel instances"
UnsupportedOperand == "TypeError: unsupported operand type(s)"

\* The exception a failed _check_active_dims call raises.
DimsError(r) ==
    IF r.err = "ValueError" THEN InvalidSelector
    ELSE IF r.err = "TypeError" THEN UnsupportedOperand
    ELSE r.err

Failed(e, h, ls) == [err |-> e, h |-> h, ls |-> ls, res |-> 0]

---------------------------------------------------------------------------
(* Kernel objects and their constructors *)

\* Default of the `constant` field: jnp.array(0.0).
DefaultConstant == FloatV(0)

\* Default of the `active_dims` field.
DefaultActiveDims == IntV(1)

\* AbstractKernel.__post_init__, run by Constant's generated __init__:
\* n_dims and active_dims are replaced by the normalizer's result.
ConstantInit(h, ls, active_dims, constant) ==
    LET r == check_active_dims(active_dims)
    IN  IF r.err # "none" THEN Failed(DimsError(r), h, ls)
        ELSE [err |-> NoErr,
              h |-> Append(h, [cls |-> "Constant",
                               n_dims |-> r.n_dims,
                               active_dims |-> r.active_dims,
                               constant |-> constant,
                               kernels |-> 0,
                               operator |-> "none"]),
              ls |-> ls,
              res |-> Len(h) + 1]

\* Constant(other): the generated __init__ binds its first positional
\* argument to the first init field, active_dims (n_dims is init=False);
\* `constant` keeps its default.
ConstantPositional(h, ls, other) == ConstantInit(h, ls, other, DefaultConstant)

\* isinstance(kernel, AbstractKernel)
IsAbstractKernel(v) == v.t = "kernel"

\* isinstance(kernel, self.__class__): SumKernel and ProductKernel are both
\* partial applications of the one class CombinationKernel, so
\* self.__class__ is CombinationKernel whatever the operator.
IsInstanceOfSelfClass(h, v) ==
    IsAbstractKernel(v) /\ h[v.v[1]].cls = "CombinationKernel"

\* OperandCheck without its isinstance test: every operand passes.
OperandCheck_Skipped(kernel) == NoErr

\* The operand test that opens the loop body.
OperandCheck(kernel) ==
    IF ~IsAbstractKernel(kernel) THEN InvalidOperand ELSE NoErr

\* kernels_list.append(kernel)
AppendOperand(h, st, kernel) ==
    [st EXCEPT !.ls[st.kl] = Append(@, kernel)]

\* SpliceOperand with append in the place of extend: the operand is nested.
SpliceOperand_Nested(h, st, kernel) ==
    [st EXCEPT !.ls[st.kl] = Append(@, kernel)]

\* SpliceOperand reusing the operand's own list as kernels_list, in place
\* of copying its elements.
SpliceOperand_InPlace(h, st, kernel) ==
    [ls |-> [st.ls EXCEPT ![h[kernel.v[1]].kernels] = st.ls[st.kl] \o @],
     kl |-> h[kernel.v[1]].kernels,
     err |-> st.err]

\* kernels_list.extend(kernel.kernels)
SpliceOperand(h, st, kernel) ==
    [st EXCEPT !.ls[st.kl] = @ \o st.ls[h[kernel.v[1]].kernels]]

\* One iteration of the loop of CombinationKernel.__post_init__.
FlattenOperand(h, st, kernel) ==
    IF OperandCheck(kernel) # NoErr
    THEN [st EXCEPT !.err = OperandCheck(kernel)]
    ELSE IF IsInstanceOfSelfClass(h, kernel)
    THEN SpliceOperand(h, st, kernel)
    ELSE AppendOperand(h, st, kernel)

\* for kernel in self.kernels: ..., stopping at the first exception.
RECURSIVE PostInitLoop(_, _, _, _)
PostInitLoop(h, st, lid, i) ==
    IF st.err # NoErr \/ i > Len(st.ls[lid]) THEN st
    ELSE PostInitLoop(h, FlattenOperand(h, st, st.ls[lid][i]), lid, i + 1)

\* CombinationKernel(kernels=<list lid>, operator=op): the generated
\* __init__ stores the fields (active_dims keeps its default, n_dims is
\* init=False and stays unset), then CombinationKernel.__post_init__, which
\* overrides AbstractKernel.__post_init__ without calling it, builds
\* kernels_list and rebinds self.kernels to it.
CombinationInit(h, ls, lid, op) ==
    LET st0 == [ls |-> Append(ls, <<>>), kl |-> Len(ls) + 1, err |-> NoErr]
        st == PostInitLoop(h, st0, lid, 1)
    IN  IF st.err # NoErr THEN Failed(st.err, h, ls)
        ELSE [err |-> NoErr,
              h |-> Append(h, [cls |-> "CombinationKernel",
                               n_dims |-> Unset,
                               active_dims |-> DefaultActiveDims,
                               constant |-> Unset,
                               kernels |-> st.kl,
                               operator |-> op]),
              ls |-> st.ls,
              res |-> Len(h) + 1]

\* The two factories: the one class, with the operator bound.
SumKernel(h, ls, lid) == CombinationInit(h, ls, lid, "sum")
ProductKernel(h, ls, lid) == CombinationInit(h, ls, lid, "prod")

Factory(op, h, ls, lid) ==
    IF op = "sum" THEN SumKernel(h, ls, lid) ELSE ProductKernel(h, ls, lid)

\* op(kernels=[self, other]) or op(kernels=[self, Constant(other)]): the
\* body shared by __add__ and __mul__.  The operand list is a fresh list.
Combine(h, ls, self, other, op) ==
    IF IsAbstractKernel(other)
    THEN Factory(op, h, Append(ls, <<KernelV(self), other>>), Len(ls) + 1)
    ELSE LET c == ConstantPositional(h, ls, other)
         IN  IF c.err # NoErr THEN c
             ELSE Factory(op, c.h, Append(c.ls, <<KernelV(self), KernelV(c.res)>>),
                          Len(c.ls) + 1)

add(h, ls, self, other) == Combine(h, ls, self, other, "sum")
radd(h, ls, self, other) == add(h, ls, self, other)
mul(h, ls, self, other) == Combine(h, ls, self, other, "prod")

\* other * self for a non-Kernel `other`: AbstractKernel defines no
\* __rmul__, so Python finds no implementation and raises TypeError.
rmul(h, ls, self, other) == Failed(UnsupportedOperand, h, ls)

---------------------------------------------------------------------------
(* Evaluation *)

RECURSIVE SeqSum(_), SeqProd(_)
SeqSum(s) == IF s = <<>> THEN 0 ELSE Head(s) + SeqSum(Tail(s))
SeqProd(s) == IF s = <<>> THEN 1 ELSE Head(s) * SeqProd(Tail(s))

\* Whether k(x, y) returns: every kernels list on the way down is a
\* non-empty list of kernels (jnp.stack rejects an empty list).
RECURSIVE Callable(_, _, _)
Callable(h, ls, k) ==
    \/ h[k].cls = "Constant" /\ h[k].constant.t \in {"int", "float"}
    \/ /\ h[k].cls = "CombinationKernel"
       /\ ls[h[k].kernels] # <<>>
       /\ \A i \in 1..Len(ls[h[k].kernels]) :
            /\ ls[h[k].kernels][i].t = "kernel"
            /\ Callable(h, ls, ls[h[k].kernels][i].v[1])

\* Number of leaf evaluations k(x, y) makes.
RECURSIVE Leaves(_, _, _)
Leaves(h, ls, k) ==
    IF h[k].cls = "Constant" THEN 1
    ELSE SeqSum([i \in 1..Len(ls[h[k].kernels]) |->
                    Leaves(h, ls, ls[h[k].kernels][i].v[1])])

\* k(x, y): Constant.__call__ returns the constant whatever x and y are;
\* CombinationKernel.__call__ reduces the children's values, in order,
\* with its operator.
RECURSIVE Call(_, _, _, _, _)
Call(h, ls, k, x, y) ==
    IF h[k].cls = "Constant" THEN h[k].constant.v[1]
    ELSE LET vals == [i \in 1..Len(ls[h[k].kernels]) |->
                        Call(h, ls, ls[h[k].kernels][i].v[1], x, y)]
         IN  IF h[k].operator = "sum" THEN SeqSum(vals) ELSE SeqProd(vals)

---------------------------------------------------------------------------
(* Inputs of the operations *)

Consts == {LeafValue}
Inputs == 0..MaxInput
Widths == 1..MaxWidth

\* Bare scalars handed to + and *.
Scalars == {IntV(c) : c \in Consts} \cup {FloatV(c) : c \in Consts}

\* Values that are neither kernels nor scalars.
NonScalars == {StrV, ListV(<<IntV(0)>>)}

Kernels(h) == {KernelV(i) : i \in 1..Len(h)}

SeqsUpTo(S, n) == UNION {[1..m -> S] : m \in 0..n}

\* Operand lists handed to the sum / product constructors.
OperandLists(h) == SeqsUpTo(Kernels(h) \cup {StrV}, MaxOperands) \ {<<>>}

OptInt(S) == {NoneV} \cup {IntV(i) : i \in S}

\* Selectors handed to a kernel constructor as active_dims.
Selectors ==
    {IntV(k) : k \in 1..MaxK}
    \cup {ListV(l) : l \in SeqsUpTo({IntV(0), IntV(2), StrV}, MaxListLen)}
    \cup {SliceV(a, b, c) : a \in OptInt(0..MaxStart), b \in OptInt(0..MaxStop),
                            c \in OptInt(0..MaxStep)}
    \cup {StrV, NoneV, FloatV(1)}

---------------------------------------------------------------------------
(* The session *)

NoCall ==
    [op |-> "none", operator |-> "none", self |-> 0, other |-> NoneV, arg |-> 0,
     err |-> NoErr, res |-> 0, out |-> <<>>, nd |-> Unset, ad |-> Unset,
     nh |-> 0, nl |-> 0]

Init ==
    /\ heap = <<>>
    /\ lists = <<>>
    /\ last = NoCall

\* The store after a constructor call with outcome r, and the record of the
\* call.  A failed call leaves no object behind.
Outcome(r, call) ==
    /\ heap' = r.h
    /\ lists' = IF r.err = NoErr THEN r.ls ELSE lists
    /\ last' = [call EXCEPT !.err = r.err, !.res = r.res,
                            !.nh = Len(heap), !.nl = Len(lists)]

\* Constant(active_dims=sel, constant=c)
NewConstant(sel, c, limit) ==
    /\ Len(heap) < limit
    /\ Outcome(ConstantInit(heap, lists, sel, c),
               [NoCall EXCEPT !.op = "Constant", !.other = sel])

\* Position of the first operand of elems that is no kernel, 0 if all are.
RECURSIVE FirstNonKernel(_, _)
FirstNonKernel(elems, i) ==
    IF i > Len(elems) THEN 0
    ELSE IF ~IsAbstractKernel(elems[i]) THEN i
    ELSE FirstNonKernel(elems, i + 1)

\* SumKernel(kernels=[...]) / ProductKernel(kernels=[...]) on a new list.
\* The call is recorded with the position of its first non-kernel operand.
Construct(op, elems) ==
    /\ Len(heap) < MaxObjs
    /\ Outcome(Factory(op, heap, Append(lists, elems), Len(lists) + 1),
               [NoCall EXCEPT !.op = "construct", !.operator = op,
                              !.other = IntV(FirstNonKernel(elems, 1)),
                              !.arg = Len(lists) + 1])

\* SumKernel(kernels=k.kernels) / ProductKernel(kernels=k.kernels): the
\* children list of an existing combination is handed over as it is.
Reconstruct(op, k) ==
    /\ Len(heap) < MaxObjs
    /\ heap[k].cls = "CombinationKernel"
    /\ Outcome(Factory(op, heap, lists, heap[k].kernels),
               [NoCall EXCEPT !.op = "reconstruct", !.operator = op,
                              !.self = k, !.arg = heap[k].kernels])

Needs(other) == IF IsAbstractKernel(other) THEN 1 ELSE 2

\* self + other
Add(self, other) ==
    /\ Len(heap) + Needs(other) <= MaxObjs
    /\ Outcome(add(heap, lists, self, other),
               [NoCall EXCEPT !.op = "add", !.operator = "sum", !.self = self,
                              !.other = other, !.arg = Len(lists) + 1])

\* other + self, for an `other` that is no kernel: Python falls back to
\* self.__radd__(other).
RAdd(self, other) ==
    /\ Len(heap) + Needs(other) <= MaxObjs
    /\ ~IsAbstractKernel(other)
    /\ Outcome(radd(heap, lists, self, other),
               [NoCall EXCEPT !.op = "radd", !.operator = "sum", !.self = self,
                              !.other = other, !.arg = Len(lists) + 1])

\* self * other
Mul(self, other) ==
    /\ Len(heap) + Needs(other) <= MaxObjs
    /\ Outcome(mul(heap, lists, self, other),
               [NoCall EXCEPT !.op = "mul", !.operator = "prod", !.self = self,
                              !.other = other, !.arg = Len(lists) + 1])

\* other * self, for an `other` that is no kernel.  The session leaves the
\* room self * other would need, as the other three operators do.
RMul(self, other) ==
    /\ Len(heap) + Needs(other) <= MaxObjs
    /\ ~IsAbstractKernel(other)
    /\ Outcome(rmul(heap, lists, self, other),
               [NoCall EXCEPT !.op = "rmul", !.operator = "prod", !.self = self,
                              !.other = other, !.arg = Len(lists) + 1])

\* k(x, y)
Evaluate(k, x, y) ==
    /\ Callable(heap, lists, k)
    /\ Leaves(heap, lists, k) <= MaxLeaves
    /\ last' = [NoCall EXCEPT !.op = "call", !.self = k,
                              !.out = <<Call(heap, lists, k, x, y)>>,
                              !.nh = Len(heap), !.nl = Len(lists)]
    /\ UNCHANGED <<heap, lists>>

\* k.slice_input(x) for an x whose trailing axis has D columns.
SliceInput(k, D) ==
    /\ Sliceable(heap[k].active_dims, D)
    /\ last' = [NoCall EXCEPT !.op = "slice_input", !.self = k, !.other = IntV(D),
                              !.out = slice_input(heap[k], D),
                              !.nh = Len(heap), !.nl = Len(lists)]
    /\ UNCHANGED <<heap, lists>>

\* _check_active_dims(sel), called on its own.
CheckActiveDims(sel) ==
    /\ LET r == check_active_dims(sel)
       IN  last' = [NoCall EXCEPT !.op = "check_active_dims", !.other = sel,
                                  !.err = IF r.err = "none" THEN NoErr ELSE DimsError(r),
                                  !.nd = r.n_dims, !.ad = r.active_dims,
                                  !.nh = Len(heap), !.nl = Len(lists)]
    /\ UNCHANGED <<heap, lists>>

\* A session that composes kernels.
Next ==
    \/ \E c \in Consts : NewConstant(DefaultActiveDims, FloatV(c), MaxObjs)
    \/ \E op \in {"sum", "prod"} : \E elems \in OperandLists(heap) : Construct(op, elems)
    \/ \E op \in {"sum", "prod"} : \E k \in 1..Len(heap) : Reconstruct(op, k)
    \/ \E k \in 1..Len(heap) : \E o \in Kernels(heap) \cup Scalars \cup NonScalars : Add(k, o)
    \/ \E k \in 1..Len(heap) : \E o \in Scalars \cup NonScalars : RAdd(k, o)
    \/ \E k \in 1..Len(heap) : \E o \in Kernels(heap) \cup Scalars \cup NonScalars : Mul(k, o)
    \/ \E k \in 1..Len(heap) : \E o \in Scalars \cup NonScalars : RMul(k, o)
    \/ \E k \in 1..Len(heap) : \E x \in Inputs : \E y \in Inputs : Evaluate(k, x, y)

Spec == Init /\ [][Next]_vars

\* A session that builds leaf kernels over every selector and slices inputs.
NextDims ==
    \/ \E sel \in Selectors : CheckActiveDims(sel)
    \/ \E sel \in Selectors : NewConstant(sel, DefaultConstant, MaxDimKernels)
    \/ \E k \in 1..Len(heap) : \E D \in Widths : SliceInput(k, D)

SpecDims == Init /\ [][NextDims]_vars

---------------------------------------------------------------------------
(* Vocabulary of the properties *)

Children(k) == lists[heap[k].kernels]

\* The store as it was when the last call was made (objects and lists are
\* only ever appended).
PreHeap == SubSeq(heap, 1, last.nh)
PreLists == SubSeq(lists, 1, last.nl)

\* The last call built a combination.
Composed ==
    /\ last.op \in {"construct", "reconstruct", "add", "radd", "mul"}
    /\ last.err = NoErr

\* The operand list the last combination was built from.
Operands == lists[last.arg]

\* v is a combination whose reduction is op.
SameKind(v, op) ==
    /\ v.t = "kernel"
    /\ heap[v.v[1]].cls = "CombinationKernel"
    /\ heap[v.v[1]].operator = op

\* The children list the construction contract asks for: the children of
\* every operand of the kind being built, every other operand as it is.
RECURSIVE ExpectedChildren(_, _)
ExpectedChildren(ops, op) ==
    IF ops = <<>> THEN <<>>
    ELSE (IF SameKind(Head(ops), op) THEN Children(Head(ops).v[1]) ELSE <<Head(ops)>>)
         \o ExpectedChildren(Tail(ops), op)

\* Every combination built so far uses one and the same operator.
SameOperatorOnly ==
    \A i, j \in 1..Len(heap) :
        heap[i].cls = "CombinationKernel" /\ heap[j].cls = "CombinationKernel"
            => heap[i].operator = heap[j].operator

---------------------------------------------------------------------------
(* Properties *)

\* C1: for kernels A and B, leaves or combinations of either kind, A + B
\* evaluates to A.evaluate(x, y) + B.evaluate(x, y) at every x, y.
C1_SumEvaluatesToSumOfOperands ==
    (last.op = "add" /\ IsAbstractKernel(last.other) /\ last.err = NoErr)
        => \A x, y \in Inputs :
             Call(heap, lists, last.res, x, y)
                = Call(heap, lists, last.self, x, y)
                  + Call(heap, lists, last.other.v[1], x, y)

\* C2: an operand that is a combination of the other reduction kind is
\* appended as one single child; only same-kind operands are inlined, so
\* (A + B) * C has 2 children, the first being A + B.
C2_HeterogeneousNestingPreserved ==
    Composed => Children(last.res) = ExpectedChildren(Operands, last.operator)

\* C3: A + s (A * s) wraps the bare scalar s in a Constant whose constant
\* is s, and evaluates to A.evaluate(x, y) + s (A.evaluate(x, y) * s).
C3_ScalarLifting ==
    (last.op \in {"add", "mul"} /\ last.other \in Scalars)
        => /\ last.err = NoErr
           /\ Len(Children(last.res)) = 2
           /\ heap[Children(last.res)[2].v[1]].cls = "Constant"
           /\ heap[Children(last.res)[2].v[1]].constant.v[1] = last.other.v[1]
           /\ \A x, y \in Inputs :
                Call(heap, lists, last.res, x, y)
                   = IF last.op = "add"
                     THEN Call(heap, lists, last.self, x, y) + last.other.v[1]
                     ELSE Call(heap, lists, last.self, x, y) * last.other.v[1]

\* C4: for a scalar o, the reflected o + A builds what A + o builds, and the
\* reflected o * A builds what A * o builds, without failing.
C4_ReflectedEqualsForward ==
    (last.op \in {"radd", "rmul"} /\ last.other \in Scalars)
        => LET fwd == IF last.op = "radd"
                      THEN add(PreHeap, PreLists, last.self, last.other)
                      ELSE mul(PreHeap, PreLists, last.self, last.other)
           IN  /\ last.err = fwd.err
               /\ heap = fwd.h
               /\ fwd.err = NoErr => lists = fwd.ls
               /\ last.op = "rmul" => last.err # UnsupportedOperand

BadOperandList ==
    /\ last.op = "construct"
    /\ last.other.v[1] > 0

\* The last call raised InvalidOperand and built nothing.
RejectedOperand ==
    /\ last.err = InvalidOperand
    /\ last.res = 0
    /\ Len(heap) = last.nh

\* C7 (as stated): a non-Kernel operand, at any position, through the
\* constructors or through + / *, fails with TypeError("can only combine
\* Kernel instances") and yields no combination.
C7_NonKernelOperandRejectedEverywhere ==
    (BadOperandList \/ (last.op \in {"add", "mul"} /\ last.other \in NonScalars))
        => RejectedOperand

\* C7 (amended): through the sum / product constructors, a non-Kernel
\* operand at any position of the operand list fails with
\* TypeError("can only combine Kernel instances") and yields no combination.
C7_ConstructorRejectsNonKernel ==
    BadOperandList => RejectedOperand

\* The offending operand comes second, after a kernel.
C7_Witness ==
    /\ BadOperandList
    /\ last.other.v[1] = 2
    /\ last.err = InvalidOperand

\* C9: every kernel, combinations included, has n_dims set by the
\* normalizer and holds the canonical selector in active_dims.
C9_EveryKernelNormalized ==
    \A k \in 1..Len(heap) :
        /\ heap[k].n_dims.t = "int"
        /\ heap[k].active_dims.t \in {"list", "slice"}

\* C10: a construction changes no existing kernel and no existing list (the
\* caller's operand list and every operand's kernels list included), and a
\* same-kind combination built from the children list of a combination has
\* those same children.
C10_FlatteningFrameAndIdempotent ==
    [][/\ Len(heap') >= Len(heap)
       /\ \A k \in 1..Len(heap) : heap'[k] = heap[k]
       /\ Len(lists') >= Len(lists)
       /\ \A l \in 1..Len(lists) : lists'[l] = lists[l]
       /\ (last'.op = "reconstruct" /\ last'.err = NoErr
             /\ heap'[last'.self].operator = last'.operator)
            => lists'[heap'[last'.res].kernels] = lists'[last'.arg]]_vars

\* A combination rebuilt, with the same operator, from the children list of
\* a combination of two kernels.
C10_Witness ==
    /\ last.op = "reconstruct" /\ last.err = NoErr
    /\ heap[last.self].operator = last.operator
    /\ Len(Children(last.self)) >= 2
    /\ last.res # last.self
    /\ heap[last.res].kernels # heap[last.self].kernels
    /\ Children(last.res) = Children(last.self)

---------------------------------------------------------------------------
(* Properties of the normalizer *)

AllInts(l) == \A j \in 1..Len(l) : l[j].t = "int"

\* The three selector shapes: a list of integers, one integer, a slice with
\* start and stop (and a step that is absent or a non-zero integer).
ValidSelector(sel) ==
    \/ sel.t = "list" /\ AllInts(sel.v)
    \/ sel.t = "int"
    \/ /\ sel.t = "slice"
       /\ sel.v[1].t = "int" /\ sel.v[2].t = "int"
       /\ sel.v[3].t = "none" \/ (sel.v[3].t = "int" /\ sel.v[3].v[1] # 0)

\* Kernel k was built from a valid selector with a positive step, and an
\* input of width D is wide enough for it.
WideEnough(k, D) ==
    \/ k.active_dims.t = "list" /\ AllInts(k.active_dims.v)
    \/ k.active_dims = SliceV(NoneV, NoneV, NoneV) /\ k.n_dims.v[1] <= D
    \/ /\ k.active_dims.t = "slice"
       /\ k.active_dims.v[1].t = "int" /\ k.active_dims.v[2].t = "int"
       /\ k.active_dims.v[1].v[1] <= k.active_dims.v[2].v[1]
       /\ k.active_dims.v[2].v[1] <= D
       /\ k.active_dims.v[3].t = "int" => k.active_dims.v[3].v[1] > 0

\* C6: n_dims is the number of columns slice_input selects from an input of
\* sufficient width.
C6_NDimsIsSelectedWidth ==
    (last.op = "slice_input" /\ WideEnough(heap[last.self], last.other.v[1]))
        => heap[last.self].n_dims.v[1] = Len(last.out)

\* C8: the normalizer accepts exactly the three selector shapes and fails
\* with InvalidSelector, and nothing else, on every other selector.
C8_OnlyInvalidSelectorErrors ==
    last.op = "check_active_dims"
        => /\ ValidSelector(last.other) => last.err = NoErr
           /\ ~ValidSelector(last.other) => last.err = InvalidSelector

====
